---- MODULE Spec2Model ----
(***************************************************************************)
(* Inventory service: the EstoqueProduto entity, the Lambda handlers of    *)
(* estoque_handler.py, the load-mutate-save cycle of a write request and   *)
(* the engine and session factory kept by connection.py.                   *)
(***************************************************************************)
EXTENDS Integers, Sequences, FiniteSets, TLC

VARIABLES
    estoque,      \* the EstoqueProduto instance (its private fields)
    constructed,  \* whether __init__ has returned normally
    clock,        \* the reading datetime.utcnow() returns now
    last,         \* the last call on the entity: operation, argument, what it raised, the record before
    repo,         \* the inventory table: produto_id -> stored record, or none
    request,      \* the last request a write handler served, and what its service call did
    response,     \* the response to that request
    list_request, \* the last listing request: its query parameters, the calls logged before it
    list_response,\* the response to that request
    list_log,     \* every call of the service's get_all_inventory so far: <<skip, limit>>
    db,           \* the stored record two concurrent remove-stock requests work on
    db0,          \* that record as it was before either request
    req,          \* each request: where it is in its cycle, its quantity, what it loaded, its copy
    last_saver,   \* the request whose save reached the database last
    async_engine,          \* connection.py's global async_engine
    async_session_factory, \* connection.py's global async_session_factory
    conn          \* engines created so far, a close_db awaiting dispose(), the sessions open, the last call completed

\* ---------------------------------------------------------------- bounds
MaxArg == 4        \* arguments of the entity operations range over -MaxArg..MaxArg
MaxAtual == 5      \* quantidade_atual is kept at or below this by the guards
MaxClock == 2      \* the clock ticks at most this many times
MaxStored == 2     \* stored quantities range over 0..MaxStored in the handlers' runs
MaxDto == 2        \* quantities in a request body range over -1..MaxDto
MaxRow == 3        \* the stored quantity two concurrent requests start from is in 1..MaxRow
MaxListRequests == 1   \* listing requests served in one run
MaxEngines == 3    \* engines create_async_engine makes in one run
MaxSessions == 2   \* sessions get_async_session has open at one time

Args == (0 - MaxArg)..MaxArg

\* ------------------------------------------------------------ exceptions
NoException == "none"
ValidationException == "ValidationException"
BusinessRuleException == "BusinessRuleException"

\* What a call leaves behind: the exception raised (or none), its message
\* and the instance after the call.
Raise(exc, message, self) == [raised |-> exc, message |-> message, self |-> self]
Return(self) == [raised |-> NoException, message |-> <<>>, self |-> self]

\* --------------------------------------------------------------- entity
NoEstoque ==
    [quantidade_atual |-> 0, quantidade_reservada |-> 0,
     nivel_minimo |-> 0, atualizado_em |-> 0]

\* __init__ without the check of the reservation against the quantity.
EstoqueProduto__init__unchecked_reservation(quantidade_atual, quantidade_reservada, nivel_minimo, utcnow) ==
    IF quantidade_atual < 0 \/ quantidade_reservada < 0 \/ nivel_minimo < 0
    THEN Raise(ValidationException, <<"cannot be negative">>, NoEstoque)
    ELSE Return([quantidade_atual |-> quantidade_atual,
                 quantidade_reservada |-> quantidade_reservada,
                 nivel_minimo |-> nivel_minimo,
                 atualizado_em |-> utcnow])

EstoqueProduto__init__(quantidade_atual, quantidade_reservada, nivel_minimo, utcnow) ==
    IF quantidade_atual < 0
    THEN Raise(ValidationException, <<"Current quantity cannot be negative">>, NoEstoque)
    ELSE IF quantidade_reservada < 0
    THEN Raise(ValidationException, <<"Reserved quantity cannot be negative">>, NoEstoque)
    ELSE IF nivel_minimo < 0
    THEN Raise(ValidationException, <<"Minimum level cannot be negative">>, NoEstoque)
    ELSE IF quantidade_reservada > quantidade_atual
    THEN Raise(ValidationException,
               <<"Reserved quantity cannot exceed current quantity">>, NoEstoque)
    ELSE Return([quantidade_atual |-> quantidade_atual,
                 quantidade_reservada |-> quantidade_reservada,
                 nivel_minimo |-> nivel_minimo,
                 atualizado_em |-> utcnow])

quantidade_disponivel(self) == self.quantidade_atual - self.quantidade_reservada

\* adicionar_estoque rejecting only negative quantities.
adicionar_estoque_accepting_zero(self, quantidade, utcnow) ==
    IF quantidade < 0
    THEN Raise(ValidationException, <<"Quantity to add must be positive">>, self)
    ELSE Return([self EXCEPT !.quantidade_atual = @ + quantidade,
                             !.atualizado_em = utcnow])

adicionar_estoque(self, quantidade, utcnow) ==
    IF quantidade <= 0
    THEN Raise(ValidationException, <<"Quantity to add must be positive">>, self)
    ELSE Return([self EXCEPT !.quantidade_atual = @ + quantidade,
                             !.atualizado_em = utcnow])

\* remover_estoque comparing with the quantity on hand, not the available one.
remover_estoque_ignoring_reserved(self, quantidade, utcnow) ==
    IF quantidade <= 0
    THEN Raise(ValidationException, <<"Quantity to remove must be positive">>, self)
    ELSE IF quantidade > self.quantidade_atual
    THEN Raise(BusinessRuleException,
               <<"Insufficient available stock. Available: ",
                 quantidade_disponivel(self), ", Requested: ", quantidade>>, self)
    ELSE Return([self EXCEPT !.quantidade_atual = @ - quantidade,
                             !.atualizado_em = utcnow])

\* remover_estoque letting a removal of one more than is available through.
remover_estoque_off_by_one(self, quantidade, utcnow) ==
    IF quantidade <= 0
    THEN Raise(ValidationException, <<"Quantity to remove must be positive">>, self)
    ELSE IF quantidade > quantidade_disponivel(self) + 1 \/ quantidade > self.quantidade_atual
    THEN Raise(BusinessRuleException,
               <<"Insufficient available stock. Available: ",
                 quantidade_disponivel(self), ", Requested: ", quantidade>>, self)
    ELSE Return([self EXCEPT !.quantidade_atual = @ - quantidade,
                             !.atualizado_em = utcnow])

remover_estoque(self, quantidade, utcnow) ==
    IF quantidade <= 0
    THEN Raise(ValidationException, <<"Quantity to remove must be positive">>, self)
    ELSE IF quantidade > quantidade_disponivel(self)
    THEN Raise(BusinessRuleException,
               <<"Insufficient available stock. Available: ",
                 quantidade_disponivel(self), ", Requested: ", quantidade>>, self)
    ELSE Return([self EXCEPT !.quantidade_atual = @ - quantidade,
                             !.atualizado_em = utcnow])

\* liberar_reserva refusing to release the whole reservation.
liberar_reserva_off_by_one(self, quantidade, utcnow) ==
    IF quantidade <= 0
    THEN Raise(ValidationException, <<"Quantity to release must be positive">>, self)
    ELSE IF quantidade >= self.quantidade_reservada
    THEN Raise(BusinessRuleException,
               <<"Cannot release more than reserved. Reserved: ",
                 self.quantidade_reservada, ", Requested: ", quantidade>>, self)
    ELSE Return([self EXCEPT !.quantidade_reservada = @ - quantidade,
                             !.atualizado_em = utcnow])

\* liberar_reserva adding to the reservation instead of taking from it.
liberar_reserva_adding(self, quantidade, utcnow) ==
    IF quantidade <= 0
    THEN Raise(ValidationException, <<"Quantity to release must be positive">>, self)
    ELSE IF quantidade > self.quantidade_reservada
    THEN Raise(BusinessRuleException,
               <<"Cannot release more than reserved. Reserved: ",
                 self.quantidade_reservada, ", Requested: ", quantidade>>, self)
    ELSE Return([self EXCEPT !.quantidade_reservada = @ + quantidade,
                             !.atualizado_em = utcnow])

liberar_reserva(self, quantidade, utcnow) ==
    IF quantidade <= 0
    THEN Raise(ValidationException, <<"Quantity to release must be positive">>, self)
    ELSE IF quantidade > self.quantidade_reservada
    THEN Raise(BusinessRuleException,
               <<"Cannot release more than reserved. Reserved: ",
                 self.quantidade_reservada, ", Requested: ", quantidade>>, self)
    ELSE Return([self EXCEPT !.quantidade_reservada = @ - quantidade,
                             !.atualizado_em = utcnow])

\* ajustar_estoque applying its argument as a change of the quantity.
ajustar_estoque_as_delta(self, nova_quantidade, utcnow) ==
    IF nova_quantidade < 0
    THEN Raise(ValidationException, <<"New quantity cannot be negative">>, self)
    ELSE IF nova_quantidade < self.quantidade_reservada
    THEN Raise(BusinessRuleException,
               <<"New quantity cannot be less than reserved quantity. Reserved: ",
                 self.quantidade_reservada, ", New: ", nova_quantidade>>, self)
    ELSE Return([self EXCEPT !.quantidade_atual = @ + nova_quantidade,
                             !.atualizado_em = utcnow])

ajustar_estoque(self, nova_quantidade, utcnow) ==
    IF nova_quantidade < 0
    THEN Raise(ValidationException, <<"New quantity cannot be negative">>, self)
    ELSE IF nova_quantidade < self.quantidade_reservada
    THEN Raise(BusinessRuleException,
               <<"New quantity cannot be less than reserved quantity. Reserved: ",
                 self.quantidade_reservada, ", New: ", nova_quantidade>>, self)
    ELSE Return([self EXCEPT !.quantidade_atual = nova_quantidade,
                             !.atualizado_em = utcnow])

\* update_minimum_level setting the timestamp before it validates.
update_minimum_level_stamping_first(self, nivel_minimo, utcnow) ==
    IF nivel_minimo < 0
    THEN Raise(ValidationException, <<"Minimum level cannot be negative">>,
               [self EXCEPT !.atualizado_em = utcnow])
    ELSE Return([self EXCEPT !.nivel_minimo = nivel_minimo,
                             !.atualizado_em = utcnow])

update_minimum_level(self, nivel_minimo, utcnow) ==
    IF nivel_minimo < 0
    THEN Raise(ValidationException, <<"Minimum level cannot be negative">>, self)
    ELSE Return([self EXCEPT !.nivel_minimo = nivel_minimo,
                             !.atualizado_em = utcnow])

\* ----------------------------------------------- application service
\* EstoqueApplicationService: for each write, load the record by product id
\* (NotFound when there is none), call the entity's method, persist the
\* record. Any call may also fail in the infrastructure underneath.
ProdutoIds == {"p1", "p2"}
NotFound == "NotFound"
OtherException == "Exception"

NoRecord == [exists |-> FALSE, e |-> NoEstoque]
Stored(e) == [exists |-> TRUE, e |-> e]

ServiceRaise(exc, message, table) == [raised |-> exc, message |-> message, repo |-> table]

Persisted(table, produto_id, r) ==
    IF r.raised # NoException
    THEN ServiceRaise(r.raised, r.message, table)
    ELSE [raised |-> NoException, message |-> <<>>,
          repo |-> [table EXCEPT ![produto_id] = Stored(r.self)]]

service_write(table, dto, fault, r) ==
    IF fault
    THEN ServiceRaise(OtherException, <<"connection refused">>, table)
    ELSE IF ~table[dto.produto_id].exists
    THEN ServiceRaise(NotFound, <<"Inventory not found for product: ", dto.produto_id>>, table)
    ELSE Persisted(table, dto.produto_id, r)

service_create_inventory(table, dto, fault, utcnow) ==
    IF fault
    THEN ServiceRaise(OtherException, <<"connection refused">>, table)
    ELSE IF table[dto.produto_id].exists
    THEN ServiceRaise(BusinessRuleException,
                      <<"Inventory already exists for product: ", dto.produto_id>>, table)
    ELSE Persisted(table, dto.produto_id,
                   EstoqueProduto__init__(dto.quantidade, 0, dto.nivel_minimo, utcnow))

service_add_stock(table, dto, fault, utcnow) ==
    service_write(table, dto, fault,
                  adicionar_estoque(table[dto.produto_id].e, dto.quantidade, utcnow))

service_remove_stock(table, dto, fault, utcnow) ==
    service_write(table, dto, fault,
                  remover_estoque(table[dto.produto_id].e, dto.quantidade, utcnow))

service_adjust_stock(table, dto, fault, utcnow) ==
    service_write(table, dto, fault,
                  ajustar_estoque(table[dto.produto_id].e, dto.quantidade, utcnow))

\* ------------------------------------------------------------- handlers
\* A handler returns a response or raises LambdaException(status, message),
\* which the lambda_handler decorator turns into the response.
success_response == [status |-> 200, message |-> <<>>]
created_response == [status |-> 201, message |-> <<>>]
LambdaException(status, message) == [status |-> status, message |-> message]

create_inventory_handler(r) ==
    IF r.raised = NoException THEN created_response
    ELSE IF r.raised = ValidationException THEN LambdaException(400, r.message)
    ELSE IF r.raised = BusinessRuleException THEN LambdaException(409, r.message)
    ELSE LambdaException(500, <<"Internal server error">>)

add_stock_handler(r) ==
    IF r.raised = NoException THEN success_response
    ELSE IF r.raised = ValidationException THEN LambdaException(400, r.message)
    ELSE IF r.raised = BusinessRuleException THEN LambdaException(409, r.message)
    ELSE LambdaException(500, <<"Internal server error">>)

\* remove_stock_handler with the two domain errors' statuses exchanged.
remove_stock_handler_swapped(r) ==
    IF r.raised = NoException THEN success_response
    ELSE IF r.raised = ValidationException THEN LambdaException(409, r.message)
    ELSE IF r.raised = BusinessRuleException THEN LambdaException(400, r.message)
    ELSE LambdaException(500, <<"Internal server error">>)

remove_stock_handler(r) ==
    IF r.raised = NoException THEN success_response
    ELSE IF r.raised = ValidationException THEN LambdaException(400, r.message)
    ELSE IF r.raised = BusinessRuleException THEN LambdaException(409, r.message)
    ELSE LambdaException(500, <<"Internal server error">>)

adjust_stock_handler(r) ==
    IF r.raised = NoException THEN success_response
    ELSE IF r.raised = ValidationException THEN LambdaException(400, r.message)
    ELSE IF r.raised = BusinessRuleException THEN LambdaException(409, r.message)
    ELSE LambdaException(500, <<"Internal server error">>)

\* ------------------------------------------------------ listing handler
\* Query parameters arrive as text: a parameter is a sequence of characters,
\* and query_params maps the names that are present to their text.
DefaultSkip == 0
DefaultLimit == 100
MinLimit == 1
MaxLimit == 1000

DigitValue ==
    [c \in {"0", "1", "2", "3", "4", "5", "6", "7", "8", "9"} |->
        CASE c = "0" -> 0 [] c = "1" -> 1 [] c = "2" -> 2 [] c = "3" -> 3
          [] c = "4" -> 4 [] c = "5" -> 5 [] c = "6" -> 6 [] c = "7" -> 7
          [] c = "8" -> 8 [] c = "9" -> 9]

IsDigits(text) ==
    /\ Len(text) > 0
    /\ \A i \in 1..Len(text) : text[i] \in DOMAIN DigitValue

RECURSIVE DigitsToInt(_)
DigitsToInt(text) ==
    IF Len(text) = 0 THEN 0
    ELSE 10 * DigitsToInt(SubSeq(text, 1, Len(text) - 1)) + DigitValue[text[Len(text)]]

\* int(text): an optional sign, then decimal digits; anything else is a
\* ValueError.
int(text) ==
    IF Len(text) > 1 /\ text[1] \in {"-", "+"} /\ IsDigits(Tail(text))
    THEN [ok |-> TRUE,
          value |-> IF text[1] = "-" THEN 0 - DigitsToInt(Tail(text))
                    ELSE DigitsToInt(Tail(text))]
    ELSE IF IsDigits(text)
    THEN [ok |-> TRUE, value |-> DigitsToInt(text)]
    ELSE [ok |-> FALSE, value |-> 0]

\* int(query_params.get(key, default))
int_param(query_params, key, default) ==
    IF key \in DOMAIN query_params
    THEN int(query_params[key])
    ELSE [ok |-> TRUE, value |-> default]

\* list_inventory_handler validating the limit only.
list_inventory_handler_unchecked_skip(query_params, service_fails) ==
    LET skip == int_param(query_params, "skip", DefaultSkip)
        limit == int_param(query_params, "limit", DefaultLimit)
    IN  IF ~skip.ok \/ ~limit.ok
        THEN [response |-> LambdaException(500, <<"Internal server error">>),
              calls |-> <<>>]
        ELSE IF limit.value < MinLimit \/ limit.value > MaxLimit
        THEN [response |-> LambdaException(400, <<"limit must be between 1 and 1000">>),
              calls |-> <<>>]
        ELSE [response |-> IF service_fails
                           THEN LambdaException(500, <<"Internal server error">>)
                           ELSE success_response,
              calls |-> << <<skip.value, limit.value>> >>]

\* What the handler does with a request: its response, and the calls it makes
\* to the service's get_all_inventory. service_fails: the call raises.
list_inventory_handler(query_params, service_fails) ==
    LET skip == int_param(query_params, "skip", DefaultSkip)
        limit == int_param(query_params, "limit", DefaultLimit)
    IN  IF ~skip.ok \/ ~limit.ok
        THEN [response |-> LambdaException(500, <<"Internal server error">>),
              calls |-> <<>>]
        ELSE IF skip.value < 0
        THEN [response |-> LambdaException(400, <<"skip must be >= 0">>),
              calls |-> <<>>]
        ELSE IF limit.value < MinLimit \/ limit.value > MaxLimit
        THEN [response |-> LambdaException(400, <<"limit must be between 1 and 1000">>),
              calls |-> <<>>]
        ELSE [response |-> IF service_fails
                           THEN LambdaException(500, <<"Internal server error">>)
                           ELSE success_response,
              calls |-> << <<skip.value, limit.value>> >>]

\* ------------------------------------------------- database connection
\* connection.py keeps the engine and the session factory in two module
\* globals. A Python object is a record: its type, the engine it is or is
\* bound to, and that engine's URL.
None == [type |-> "NoneType", id |-> 0, url |-> <<>>]
RuntimeError == "RuntimeError"
ArgumentError == "ArgumentError"

Globals(engine, factory) == [async_engine |-> engine, async_session_factory |-> factory]

\* str.replace on a URL given as its parts: every part equal to old becomes new.
replace(url, old, new) == [i \in 1..Len(url) |-> IF url[i] = old THEN new ELSE url[i]]

\* create_async_engine: a new engine for a URL it can parse (a driver scheme,
\* then the rest); ArgumentError for anything else.
create_async_engine(async_url, id) ==
    IF Len(async_url) = 2 /\ async_url[1] \in {"postgresql://", "postgresql+asyncpg://"}
    THEN [raised |-> NoException,
          engine |-> [type |-> "AsyncEngine", id |-> id, url |-> async_url]]
    ELSE [raised |-> ArgumentError, engine |-> None]

async_sessionmaker(engine) ==
    [type |-> "async_sessionmaker", id |-> engine.id, url |-> engine.url]

\* init_db: the globals after the call, what it raised, whether it made an engine.
init_db(g, database_url, id) ==
    IF g.async_engine # None
    THEN [raised |-> NoException, globals |-> g, created |-> FALSE]
    ELSE LET async_url == replace(database_url, "postgresql://", "postgresql+asyncpg://")
             made == create_async_engine(async_url, id)
         IN  IF made.raised # NoException
             THEN [raised |-> made.raised, globals |-> g, created |-> FALSE]
             ELSE [raised |-> NoException,
                   globals |-> Globals(made.engine, async_sessionmaker(made.engine)),
                   created |-> TRUE]

\* close_db setting only the engine back to None.
close_db_keeping_factory(g) ==
    Globals(None, g.async_session_factory)

\* close_db, once dispose() has returned: both globals back to None.
close_db(g) ==
    Globals(None, None)

\* get_async_session up to its first yield: RuntimeError without a factory,
\* else a session of the factory.
get_async_session(g) ==
    IF g.async_session_factory = None
    THEN [raised |-> RuntimeError, session |-> None]
    ELSE [raised |-> NoException,
          session |-> [type |-> "AsyncSession", id |-> g.async_session_factory.id,
                       url |-> g.async_session_factory.url]]

\* ---------------------------------------------------------------- state
entityVars == <<estoque, constructed, clock, last>>
handlerVars == <<repo, request, response>>
listVars == <<list_request, list_response, list_log>>
concVars == <<db, db0, req, last_saver>>
connVars == <<async_engine, async_session_factory, conn>>
vars == <<entityVars, handlerVars, listVars, concVars, connVars>>

NoCall == [op |-> "none", arg |-> 0, raised |-> NoException, pre |-> NoEstoque, at |-> 0]

EntityIdle ==
    /\ estoque = NoEstoque
    /\ constructed = FALSE
    /\ clock = 0
    /\ last = NoCall

\* ------------------------------------------------ the handlers' behaviour
NoRequest ==
    [handler |-> "none", produto_id |-> "p1", quantidade |-> 0,
     raised |-> NoException, message |-> <<>>]
NoResponse == [status |-> 0, message |-> <<>>]

Requests == {"r1", "r2"}
NoSaver == "none"
Waiting == [pc |-> "waiting", quantidade |-> 0, loaded |-> NoEstoque,
            entity |-> NoEstoque, status |-> 0]

NoDbCall ==
    [op |-> "none", raised |-> NoException, pre |-> Globals(None, None),
     made |-> FALSE, ready |-> FALSE, session |-> None]

\* ready: an init_db has completed since the last close_db completed.
ConnectionIdle ==
    /\ async_engine = None
    /\ async_session_factory = None
    /\ conn = [created |-> 0, closing |-> FALSE, ready |-> FALSE, open |-> <<>>,
               call |-> NoDbCall]

ConcurrentIdle ==
    /\ db = NoEstoque
    /\ db0 = NoEstoque
    /\ req = [p \in Requests |-> Waiting]
    /\ last_saver = NoSaver

ListIdle ==
    /\ list_request = [query_params |-> <<>>, logged |-> 0, served |-> FALSE]
    /\ list_response = NoResponse
    /\ list_log = <<>>

HandlersIdle ==
    /\ repo = [p \in ProdutoIds |-> NoRecord]
    /\ request = NoRequest
    /\ response = NoResponse

\* The rows the table can hold when a run starts: every one a record the
\* entity's constructor accepts.
StoredRecords ==
    {NoRecord} \cup
    {Stored(EstoqueProduto__init__(a, r, 0, 0).self) :
        a \in 1..MaxStored, r \in 0..1}

Dtos ==
    [produto_id : ProdutoIds, quantidade : (0 - 1)..MaxDto, nivel_minimo : {0}]

Served(handler, dto, r, resp) ==
    /\ repo' = r.repo
    /\ request' = [handler |-> handler, produto_id |-> dto.produto_id,
                   quantidade |-> dto.quantidade,
                   raised |-> r.raised, message |-> r.message]
    /\ response' = resp
    /\ UNCHANGED <<entityVars, listVars, concVars, connVars>>

CreateInventory ==
    \E dto \in Dtos, fault \in BOOLEAN :
        LET r == service_create_inventory(repo, dto, fault, clock) IN
        Served("create_inventory_handler", dto, r, create_inventory_handler(r))

AddStock ==
    \E dto \in Dtos, fault \in BOOLEAN :
        LET r == service_add_stock(repo, dto, fault, clock) IN
        /\ repo[dto.produto_id].e.quantidade_atual + dto.quantidade <= MaxStored
        /\ Served("add_stock_handler", dto, r, add_stock_handler(r))

RemoveStock ==
    \E dto \in Dtos, fault \in BOOLEAN :
        LET r == service_remove_stock(repo, dto, fault, clock) IN
        Served("remove_stock_handler", dto, r, remove_stock_handler(r))

AdjustStock ==
    \E dto \in Dtos, fault \in BOOLEAN :
        LET r == service_adjust_stock(repo, dto, fault, clock) IN
        Served("adjust_stock_handler", dto, r, adjust_stock_handler(r))

InitHandlers ==
    /\ EntityIdle
    /\ repo \in [ProdutoIds -> StoredRecords]
    /\ request = NoRequest
    /\ response = NoResponse
    /\ ListIdle
    /\ ConcurrentIdle
    /\ ConnectionIdle

NextHandlers ==
    \/ CreateInventory
    \/ AddStock
    \/ RemoveStock
    \/ AdjustStock

SpecHandlers == InitHandlers /\ [][NextHandlers]_vars

\* ------------------------------------------- the listing handler's behaviour
ParamTexts ==
    {<<"0">>, <<"1">>, <<"7">>, <<"-", "1">>, <<"+", "7">>, <<"1", "0", "0", "0">>,
     <<"1", "0", "0", "1">>, <<"a", "l", "l">>, <<>>}

QueryParams ==
    UNION {[names -> ParamTexts] : names \in SUBSET {"skip", "limit"}}

ListInventory ==
    /\ Len(list_log) < MaxListRequests
    /\ \E query_params \in QueryParams, service_fails \in BOOLEAN :
        LET h == list_inventory_handler(query_params, service_fails) IN
        /\ list_request' = [query_params |-> query_params, logged |-> Len(list_log),
                            served |-> TRUE]
        /\ list_response' = h.response
        /\ list_log' = list_log \o h.calls
    /\ UNCHANGED <<entityVars, handlerVars, concVars, connVars>>

InitList ==
    /\ EntityIdle
    /\ HandlersIdle
    /\ ListIdle
    /\ ConcurrentIdle
    /\ ConnectionIdle

NextList == ListInventory

SpecList == InitList /\ [][NextList]_vars

\* --------------------------------- concurrent remove-stock requests
\* One request is one load-mutate-save cycle of the service: it reads the
\* record, calls remover_estoque on its own copy, and writes the copy back.
\* The requests run in separate invocations; nothing in the handler or the
\* entity makes one wait for the other, so their database reads and writes
\* interleave in any order the database lets through.
Receive(p) ==
    /\ req[p].pc = "waiting"
    /\ \E q \in 1..MaxRow : req' = [req EXCEPT ![p].pc = "received", ![p].quantidade = q]
    /\ UNCHANGED <<db, db0, last_saver, entityVars, handlerVars, listVars, connVars>>

Load(p) ==
    /\ req[p].pc = "received"
    /\ req' = [req EXCEPT ![p].pc = "loaded", ![p].loaded = db, ![p].entity = db]
    /\ UNCHANGED <<db, db0, last_saver, entityVars, handlerVars, listVars, connVars>>

Mutate(p) ==
    /\ req[p].pc = "loaded"
    /\ LET r == remover_estoque(req[p].entity, req[p].quantidade, clock) IN
        IF r.raised = NoException
        THEN req' = [req EXCEPT ![p].pc = "mutated", ![p].entity = r.self]
        ELSE req' = [req EXCEPT ![p].pc = "done",
                                ![p].status = remove_stock_handler(r).status]
    /\ UNCHANGED <<db, db0, last_saver, entityVars, handlerVars, listVars, connVars>>

Save(p) ==
    /\ req[p].pc = "mutated"
    /\ db' = req[p].entity
    /\ last_saver' = p
    /\ req' = [req EXCEPT ![p].pc = "done",
                          ![p].status = remove_stock_handler(Return(req[p].entity)).status]
    /\ UNCHANGED <<db0, entityVars, handlerVars, listVars, connVars>>

InitConcurrent ==
    /\ EntityIdle
    /\ HandlersIdle
    /\ ListIdle
    /\ \E a \in 1..MaxRow, r \in 0..1 :
        db = EstoqueProduto__init__(a, r, 0, 0).self
    /\ db0 = db
    /\ req = [p \in Requests |-> Waiting]
    /\ last_saver = NoSaver
    /\ ConnectionIdle

NextConcurrent ==
    \E p \in Requests :
        \/ Receive(p)
        \/ Load(p)
        \/ Mutate(p)
        \/ Save(p)

SpecConcurrent == InitConcurrent /\ [][NextConcurrent]_vars

\* -------------------------------------------- the connection's behaviour
DatabaseUrls ==
    {<<"postgresql://", "app@primary/estoque">>,
     <<"postgresql://", "app@replica/estoque">>,
     <<"postgresql+asyncpg://", "app@primary/estoque">>,
     <<"not a url">>}

CurrentGlobals == Globals(async_engine, async_session_factory)

DbCall(op, raised, made, session) ==
    [op |-> op, raised |-> raised, pre |-> CurrentGlobals, made |-> made,
     ready |-> conn.ready, session |-> session]

InitDb ==
    /\ conn.created < MaxEngines
    /\ \E database_url \in DatabaseUrls :
        LET r == init_db(CurrentGlobals, database_url, conn.created + 1) IN
        /\ async_engine' = r.globals.async_engine
        /\ async_session_factory' = r.globals.async_session_factory
        /\ conn' = [conn EXCEPT
                      !.created = IF r.created THEN @ + 1 ELSE @,
                      !.ready = IF r.raised = NoException THEN TRUE ELSE @,
                      !.call = DbCall("init_db", r.raised, r.created, None)]
    /\ UNCHANGED <<entityVars, handlerVars, listVars, concVars>>

\* close_db with nothing to close returns at once; otherwise it awaits
\* dispose(), and other calls may run before it goes on.
CloseDbBegin ==
    /\ ~conn.closing
    /\ IF async_engine = None
       THEN conn' = [conn EXCEPT !.ready = FALSE,
                                 !.call = DbCall("close_db", NoException, FALSE, None)]
       ELSE conn' = [conn EXCEPT !.closing = TRUE]
    /\ UNCHANGED <<async_engine, async_session_factory,
                   entityVars, handlerVars, listVars, concVars>>

\* dispose() returns, or raises and leaves the globals as they are.
CloseDbFinish ==
    /\ conn.closing
    /\ \E dispose_raises \in BOOLEAN :
        IF dispose_raises
        THEN /\ conn' = [conn EXCEPT !.closing = FALSE,
                           !.call = DbCall("close_db", OtherException, FALSE, None)]
             /\ UNCHANGED <<async_engine, async_session_factory>>
        ELSE /\ async_engine' = close_db(CurrentGlobals).async_engine
             /\ async_session_factory' = close_db(CurrentGlobals).async_session_factory
             /\ conn' = [conn EXCEPT !.closing = FALSE, !.ready = FALSE,
                           !.call = DbCall("close_db", NoException, FALSE, None)]
    /\ UNCHANGED <<entityVars, handlerVars, listVars, concVars>>

GetAsyncSession ==
    /\ Len(conn.open) < MaxSessions
    /\ LET r == get_async_session(CurrentGlobals) IN
        conn' = [conn EXCEPT
                   !.open = IF r.raised = NoException THEN Append(@, r.session) ELSE @,
                   !.call = DbCall("get_async_session", r.raised, FALSE, r.session)]
    /\ UNCHANGED <<async_engine, async_session_factory,
                   entityVars, handlerVars, listVars, concVars>>

\* The caller is done with a session: the generator resumes after its yield,
\* rolls the session back and re-raises if the caller's block raised, and the
\* async with closes the session.
SessionExit ==
    /\ \E i \in 1..Len(conn.open), body_raises \in BOOLEAN :
        conn' = [conn EXCEPT
                   !.open = SubSeq(@, 1, i - 1) \o SubSeq(@, i + 1, Len(@)),
                   !.call = DbCall(IF body_raises THEN "session_rollback" ELSE "session_close",
                                   IF body_raises THEN OtherException ELSE NoException,
                                   FALSE, conn.open[i])]
    /\ UNCHANGED <<async_engine, async_session_factory,
                   entityVars, handlerVars, listVars, concVars>>

InitConnection ==
    /\ EntityIdle
    /\ HandlersIdle
    /\ ListIdle
    /\ ConcurrentIdle
    /\ ConnectionIdle

NextConnection ==
    \/ InitDb
    \/ CloseDbBegin
    \/ CloseDbFinish
    \/ GetAsyncSession
    \/ SessionExit

SpecConnection == InitConnection /\ [][NextConnection]_vars

\* ------------------------------------------------- the entity's behaviour

Called(op, arg, r) ==
    /\ estoque' = r.self
    /\ last' = [op |-> op, arg |-> arg, raised |-> r.raised, pre |-> estoque, at |-> clock]

InitEntity ==
    /\ EntityIdle
    /\ HandlersIdle
    /\ ListIdle
    /\ ConcurrentIdle
    /\ ConnectionIdle

\* The wall clock moves on between two calls, or does not.
Tick ==
    /\ clock < MaxClock
    /\ clock' = clock + 1
    /\ UNCHANGED <<estoque, constructed, last, handlerVars, listVars, concVars, connVars>>

Construct ==
    /\ ~constructed
    /\ \E a \in Args, r \in Args, m \in Args :
        LET c == EstoqueProduto__init__(a, r, m, clock) IN
        /\ a <= MaxAtual
        /\ constructed' = (c.raised = NoException)
        /\ estoque' = c.self
        /\ last' = [op |-> "__init__", arg |-> a, raised |-> c.raised,
                    pre |-> NoEstoque, at |-> clock]
    /\ UNCHANGED <<clock, handlerVars, listVars, concVars, connVars>>

AdicionarEstoque ==
    /\ constructed
    /\ \E q \in Args :
        /\ estoque.quantidade_atual + q <= MaxAtual
        /\ Called("adicionar_estoque", q, adicionar_estoque(estoque, q, clock))
    /\ UNCHANGED <<constructed, clock, handlerVars, listVars, concVars, connVars>>

RemoverEstoque ==
    /\ constructed
    /\ \E q \in Args :
        /\ Called("remover_estoque", q, remover_estoque(estoque, q, clock))
    /\ UNCHANGED <<constructed, clock, handlerVars, listVars, concVars, connVars>>

LiberarReserva ==
    /\ constructed
    /\ \E q \in Args : Called("liberar_reserva", q, liberar_reserva(estoque, q, clock))
    /\ UNCHANGED <<constructed, clock, handlerVars, listVars, concVars, connVars>>

AjustarEstoque ==
    /\ constructed
    /\ \E n \in Args : Called("ajustar_estoque", n, ajustar_estoque(estoque, n, clock))
    /\ UNCHANGED <<constructed, clock, handlerVars, listVars, concVars, connVars>>

UpdateMinimumLevel ==
    /\ constructed
    /\ \E m \in Args :
        Called("update_minimum_level", m, update_minimum_level(estoque, m, clock))
    /\ UNCHANGED <<constructed, clock, handlerVars, listVars, concVars, connVars>>

Next ==
    \/ Tick
    \/ Construct
    \/ AdicionarEstoque
    \/ RemoverEstoque
    \/ LiberarReserva
    \/ AjustarEstoque
    \/ UpdateMinimumLevel

Init == InitEntity

Spec == Init /\ [][Next]_vars

\* ------------------------------------------------------------ properties
Mutators ==
    {"adicionar_estoque", "remover_estoque", "liberar_reserva",
     "ajustar_estoque", "update_minimum_level"}

Succeeded(op) == last.op = op /\ last.raised = NoException

\* C1: once constructed, after any sequence of calls of the five mutating
\* operations, failing or not, 0 <= quantidade_reservada <= quantidade_atual
\* and nivel_minimo >= 0, hence quantidade_disponivel >= 0.
C1_QuantitiesConsistent ==
    constructed =>
        /\ 0 <= estoque.quantidade_reservada
        /\ estoque.quantidade_reservada <= estoque.quantidade_atual
        /\ estoque.nivel_minimo >= 0
        /\ quantidade_disponivel(estoque) >= 0

\* A removal has just taken everything that was not reserved.
C1_Witness ==
    /\ constructed
    /\ Succeeded("remover_estoque")
    /\ estoque.quantidade_reservada > 0
    /\ estoque.quantidade_reservada = estoque.quantidade_atual

\* C2 as stated: for every integer q, remover_estoque(q) raises
\* BusinessRuleException iff q > quantidade_disponivel, and otherwise leaves
\* quantidade_atual lower by exactly q with quantidade_reservada unchanged.
C2_AsStated ==
    last.op = "remover_estoque" =>
        /\ (last.raised = BusinessRuleException)
              <=> (last.arg > quantidade_disponivel(last.pre))
        /\ last.arg <= quantidade_disponivel(last.pre) =>
              /\ estoque.quantidade_atual = last.pre.quantidade_atual - last.arg
              /\ estoque.quantidade_reservada = last.pre.quantidade_reservada

\* The case of the specification: 10 on hand, 3 reserved.
C2_Example ==
    LET e == [quantidade_atual |-> 10, quantidade_reservada |-> 3,
              nivel_minimo |-> 0, atualizado_em |-> 0]
        r8 == remover_estoque(e, 8, 1)
        r7 == remover_estoque(e, 7, 1)
    IN  /\ r8.raised = BusinessRuleException /\ r8.self = e
        /\ r7.raised = NoException
        /\ r7.self.quantidade_atual = 3 /\ r7.self.quantidade_reservada = 3
        /\ quantidade_disponivel(r7.self) = 0

\* C2 amended: remover_estoque(q) raises ValidationException when q <= 0 and
\* BusinessRuleException iff q > quantidade_disponivel, both leaving the record
\* as it was; for 0 < q <= quantidade_disponivel it succeeds, lowering
\* quantidade_atual by exactly q with quantidade_reservada unchanged.
C2_Remover ==
    /\ C2_Example
    /\ last.op = "remover_estoque" =>
        /\ (last.raised = BusinessRuleException)
              <=> (last.arg > quantidade_disponivel(last.pre))
        /\ (last.raised = ValidationException) <=> (last.arg <= 0)
        /\ last.raised # NoException => estoque = last.pre
        /\ (0 < last.arg /\ last.arg <= quantidade_disponivel(last.pre)) =>
              /\ last.raised = NoException
              /\ estoque.quantidade_atual = last.pre.quantidade_atual - last.arg
              /\ estoque.quantidade_reservada = last.pre.quantidade_reservada
              /\ estoque.nivel_minimo = last.pre.nivel_minimo

\* A removal of exactly the available quantity, with some stock reserved.
C2_Witness ==
    /\ Succeeded("remover_estoque")
    /\ last.pre.quantidade_reservada > 0
    /\ last.arg = quantidade_disponivel(last.pre)
    /\ quantidade_disponivel(estoque) = 0

\* The case of the specification: adjusting to 2 and to 3 with 3 reserved.
C3_Example ==
    LET e == [quantidade_atual |-> 10, quantidade_reservada |-> 3,
              nivel_minimo |-> 0, atualizado_em |-> 0]
    IN  /\ ajustar_estoque(e, 2, 1).raised = BusinessRuleException
        /\ ajustar_estoque(e, 3, 1).raised = NoException
        /\ ajustar_estoque(e, 3, 1).self.quantidade_atual = 3

\* C3: ajustar_estoque(n) fails iff n < 0 (ValidationException) or
\* n < quantidade_reservada (BusinessRuleException); otherwise it sets
\* quantidade_atual to exactly n, whatever it was, and leaves
\* quantidade_reservada and nivel_minimo unchanged.
C3_Ajustar ==
    /\ C3_Example
    /\ last.op = "ajustar_estoque" =>
        /\ (last.raised # NoException)
              <=> (last.arg < 0 \/ last.arg < last.pre.quantidade_reservada)
        /\ last.arg < 0 => last.raised = ValidationException
        /\ (last.arg >= 0 /\ last.arg < last.pre.quantidade_reservada)
              => last.raised = BusinessRuleException
        /\ last.raised # NoException => estoque = last.pre
        /\ last.raised = NoException =>
              /\ estoque.quantidade_atual = last.arg
              /\ estoque.quantidade_reservada = last.pre.quantidade_reservada
              /\ estoque.nivel_minimo = last.pre.nivel_minimo

\* An adjustment down to a value that is neither the old quantity nor the
\* old quantity plus the argument, with stock reserved.
C3_Witness ==
    /\ Succeeded("ajustar_estoque")
    /\ last.pre.quantidade_reservada > 0
    /\ last.pre.quantidade_atual > last.arg
    /\ estoque.quantidade_atual = last.arg

\* C4: adicionar_estoque(q) with q <= 0 always raises ValidationException;
\* with q > 0 it always succeeds, raises quantidade_atual by exactly q and
\* leaves quantidade_reservada and nivel_minimo unchanged.
C4_Adicionar ==
    last.op = "adicionar_estoque" =>
        /\ last.arg <= 0 => (last.raised = ValidationException /\ estoque = last.pre)
        /\ last.arg > 0 =>
              /\ last.raised = NoException
              /\ estoque.quantidade_atual = last.pre.quantidade_atual + last.arg
              /\ estoque.quantidade_reservada = last.pre.quantidade_reservada
              /\ estoque.nivel_minimo = last.pre.nivel_minimo

\* Stock was added to a record that has a reservation and a minimum level.
C4_Witness ==
    /\ Succeeded("adicionar_estoque")
    /\ last.arg > 1
    /\ last.pre.quantidade_reservada > 0
    /\ last.pre.nivel_minimo > 0

\* C5: liberar_reserva(q) fails iff q <= 0 (ValidationException) or
\* q > quantidade_reservada (BusinessRuleException); otherwise it lowers
\* quantidade_reservada by exactly q and leaves quantidade_atual unchanged.
C5_Liberar ==
    last.op = "liberar_reserva" =>
        /\ (last.raised # NoException)
              <=> (last.arg <= 0 \/ last.arg > last.pre.quantidade_reservada)
        /\ last.arg <= 0 => last.raised = ValidationException
        /\ (last.arg > 0 /\ last.arg > last.pre.quantidade_reservada)
              => last.raised = BusinessRuleException
        /\ last.raised # NoException => estoque = last.pre
        /\ last.raised = NoException =>
              /\ estoque.quantidade_reservada = last.pre.quantidade_reservada - last.arg
              /\ estoque.quantidade_atual = last.pre.quantidade_atual
              /\ estoque.nivel_minimo = last.pre.nivel_minimo

\* The whole reservation was released.
C5_Witness ==
    /\ Succeeded("liberar_reserva")
    /\ last.arg = last.pre.quantidade_reservada
    /\ last.arg > 1
    /\ estoque.quantidade_reservada = 0

\* C10 as stated: a mutating operation that raises leaves every field as it
\* was, atualizado_em included; atualizado_em moves only in an operation that
\* succeeds, and every operation that succeeds moves it forward.
C10_AsStated ==
    last.op \in Mutators =>
        /\ last.raised # NoException => estoque = last.pre
        /\ estoque.atualizado_em # last.pre.atualizado_em => last.raised = NoException
        /\ last.raised = NoException =>
              estoque.atualizado_em > last.pre.atualizado_em

\* C10 amended: a mutating operation that raises leaves every field as it
\* was, atualizado_em included; atualizado_em is assigned only by an operation
\* that succeeds, and every operation that succeeds assigns it the reading
\* datetime.utcnow() gives during that call (which equals the old value when
\* the reading has not changed since the previous assignment).
C10_FailureLeavesRecord ==
    last.op \in Mutators =>
        /\ last.raised # NoException => estoque = last.pre
        /\ estoque.atualizado_em # last.pre.atualizado_em => last.raised = NoException
        /\ last.raised = NoException => estoque.atualizado_em = last.at

\* An operation failed its business rule at a later clock reading than the
\* record's timestamp, which stays where it was.
C10_Witness ==
    /\ last.op \in Mutators
    /\ last.raised = BusinessRuleException
    /\ last.at > last.pre.atualizado_em
    /\ estoque.atualizado_em = last.pre.atualizado_em

WriteHandlers == {"add_stock_handler", "remove_stock_handler", "adjust_stock_handler"}

\* C6: when a write operation (add, remove, adjust) finds no inventory record
\* for the product id and the service fails with NotFound, the response status
\* is 404, not 500.
C6_NotFoundIs404 ==
    (request.handler \in WriteHandlers /\ request.raised = NotFound)
        => response.status = 404

\* C7: in the create, add, remove and adjust handlers every outcome of the
\* service call maps to one status: success to 200 (201 for create),
\* ValidationException to 400 with its message, BusinessRuleException to 409
\* with its message, anything else to 500 with the fixed message
\* "Internal server error", the error's own text not appearing.
C7_OutcomeToStatus ==
    request.handler \in WriteHandlers \cup {"create_inventory_handler"} =>
        /\ request.raised = NoException =>
              response.status =
                  (IF request.handler = "create_inventory_handler" THEN 201 ELSE 200)
        /\ request.raised = ValidationException =>
              (response.status = 400 /\ response.message = request.message)
        /\ request.raised = BusinessRuleException =>
              (response.status = 409 /\ response.message = request.message)
        /\ request.raised \notin {NoException, ValidationException, BusinessRuleException} =>
              /\ response.status = 500
              /\ response.message = <<"Internal server error">>
              /\ response.message # request.message
        /\ response.status \in {200, 201, 400, 409, 500}

\* The removal of more than is available was answered 409 with the entity's
\* message.
C7_Witness ==
    /\ request.handler = "remove_stock_handler"
    /\ request.raised = BusinessRuleException
    /\ response.status = 409
    /\ Len(response.message) = 4
    /\ response.message = request.message

\* The integers the last listing request gave for skip and limit (the
\* defaults for a parameter that is absent).
ListSkip == int_param(list_request.query_params, "skip", 0)
ListLimit == int_param(list_request.query_params, "limit", 100)
ListCalls == SubSeq(list_log, list_request.logged + 1, Len(list_log))

\* C8: in list_inventory_handler, for integer skip and limit: if skip < 0 or
\* limit < 1 or limit > 1000 the response is 400 and get_all_inventory is not
\* called; if skip >= 0 and 1 <= limit <= 1000 it is called exactly once with
\* those values (skip 0 and limit 100 when absent).
C8_ListPagination ==
    (list_request.served /\ ListSkip.ok /\ ListLimit.ok) =>
        IF ListSkip.value < 0 \/ ListLimit.value < 1 \/ ListLimit.value > 1000
        THEN list_response.status = 400 /\ ListCalls = <<>>
        ELSE ListCalls = << <<ListSkip.value, ListLimit.value>> >>

\* A request with skip given and limit absent reached the service once, with
\* the default limit.
C8_Witness ==
    /\ list_request.served
    /\ DOMAIN list_request.query_params = {"skip"}
    /\ list_log = << <<7, 100>> >>
    /\ list_response.status = 200

\* C9: nothing in the application serializes two requests on one record: a
\* request may load while the other is between its load and its save, each
\* successful request is judged against the record it loaded itself, and its
\* save writes that record less its own quantity over whatever is stored, so
\* (the database letting the interleaving through) both of two removals that
\* together exceed the available quantity can succeed, the later save
\* overwriting the earlier one.
C9_NoSerialization ==
    /\ \A p \in Requests :
        /\ req[p].pc = "received" => ENABLED Load(p)
        /\ (req[p].pc = "done" /\ req[p].status = 200) =>
              /\ req[p].quantidade <= quantidade_disponivel(req[p].loaded)
              /\ req[p].entity.quantidade_atual =
                     req[p].loaded.quantidade_atual - req[p].quantidade
        /\ (req[p].pc = "done" /\ req[p].status = 409) =>
              req[p].quantidade > quantidade_disponivel(req[p].loaded)
        /\ req[p].pc = "done" => req[p].status \in {200, 409}
    /\ last_saver # NoSaver =>
          db.quantidade_atual =
              req[last_saver].loaded.quantidade_atual - req[last_saver].quantidade

\* The lost update: both removals answered 200 although together they ask for
\* more than was available, and the record holds the later save only.
C9_LostUpdate ==
    /\ \A p \in Requests : req[p].pc = "done" /\ req[p].status = 200
    /\ req["r1"].quantidade + req["r2"].quantidade > quantidade_disponivel(db0)
    /\ req["r1"].loaded = db0 /\ req["r2"].loaded = db0
    /\ db.quantidade_atual = db0.quantidade_atual - req[last_saver].quantidade
    /\ db.quantidade_atual >
           db0.quantidade_atual - req["r1"].quantidade - req["r2"].quantidade

\* What a call of a mutating operation may do to quantidade_reservada: leave
\* it, or (a successful liberar_reserva, and nothing else) lower it.
C11_CallKeepsOrLowers ==
    last.op \in Mutators =>
        /\ estoque.quantidade_reservada <= last.pre.quantidade_reservada
        /\ estoque.quantidade_reservada < last.pre.quantidade_reservada
              <=> Succeeded("liberar_reserva")
        /\ (last.op = "liberar_reserva" /\ last.pre.quantidade_reservada = 0)
              => last.raised # NoException

\* C11: after construction quantidade_reservada never increases: every step
\* leaves it unchanged or (liberar_reserva only) strictly lowers it, so a
\* record whose quantidade_reservada is 0 keeps it at 0 from then on, and
\* liberar_reserva on such a record always fails.
C11_ReservedNeverIncreases ==
    /\ [](C11_CallKeepsOrLowers)
    /\ [][constructed =>
            /\ estoque'.quantidade_reservada <= estoque.quantidade_reservada
            /\ estoque.quantidade_reservada = 0 => estoque'.quantidade_reservada = 0
            /\ estoque'.quantidade_reservada < estoque.quantidade_reservada
                  => (last'.op = "liberar_reserva" /\ last'.raised = NoException)]_vars

\* liberar_reserva was refused on a record that has stock and no reservation.
C11_Witness ==
    /\ last.op = "liberar_reserva"
    /\ last.arg > 0
    /\ last.pre.quantidade_reservada = 0
    /\ last.pre.quantidade_atual >= last.arg
    /\ last.raised = BusinessRuleException
    /\ estoque.quantidade_reservada = 0

\* C12: the globals async_engine and async_session_factory are both set or
\* both None; init_db on an initialized module makes no engine and leaves both
\* as they are; a close_db that completes leaves both None; get_async_session
\* raises RuntimeError exactly when no init_db has completed since the last
\* completed close_db, or ever.
C12_GlobalsInStep ==
    /\ (async_engine = None) <=> (async_session_factory = None)
    /\ async_engine # None =>
          /\ async_engine.type = "AsyncEngine"
          /\ async_session_factory = async_sessionmaker(async_engine)
    /\ (conn.call.op = "init_db" /\ conn.call.pre.async_engine # None) =>
          /\ conn.call.raised = NoException
          /\ ~conn.call.made
          /\ CurrentGlobals = conn.call.pre
    /\ (conn.call.op = "init_db" /\ conn.call.raised = NoException) =>
          async_engine # None
    /\ (conn.call.op = "close_db" /\ conn.call.raised = NoException) =>
          CurrentGlobals = Globals(None, None)
    /\ conn.call.op = "get_async_session" =>
          ((conn.call.raised = RuntimeError) <=> ~conn.call.ready)
    /\ conn.ready <=> (async_session_factory # None)

\* After init_db, close_db and a second init_db, a further init_db found the
\* module initialized and left the second engine in place.
C12_Witness ==
    /\ conn.call.op = "init_db"
    /\ conn.call.pre.async_engine # None
    /\ conn.created = 2
    /\ async_engine.id = 2
    /\ async_session_factory.id = 2

====
